---------------------------- MODULE Spec2Model ----------------------------
(***************************************************************************)
(* Model of the admin server actions, the FTP upload service and the       *)
(* request middleware of the jradianceco e-commerce application.           *)
(*                                                                         *)
(* Every `await` of a server action on the database, the auth service or   *)
(* the FTP client is one atomic step of the invocation that issues it;     *)
(* invocations of different requests interleave at these steps.  The read  *)
(* only permission helpers and the middleware are single actions.          *)
(*                                                                         *)
(* Strings that the code takes apart (path names, file names, folders,     *)
(* URLs) are sequences of chunks; concatenation of strings is \o.  The     *)
(* chunk alphabets are prefix free, so String.startsWith is the prefix     *)
(* relation on the sequences.                                              *)
(***************************************************************************)
EXTENDS Integers, Sequences, FiniteSets, TLC

(***************************************************************************)
(* Bounds and input domains                                                *)
(***************************************************************************)
\* Invocations of server actions / FTP calls in one behaviour; each may
\* interleave with the others.
NumProcs == 2

Procs == 1..NumProcs

Users == {"u1", "u2"}
NoUser == "anon"
Sessions == Users \cup {NoUser}

UserRole == {"customer", "agent", "admin", "chief_admin"}
NoRole == "null"

Pids == {"p1", "p2"}
Oids == {"o1"}
OrderStatus == {"pending", "delivered"}
ProductUpdates == {"d1"}

VARIABLES
    profiles,      \* table profiles: id -> [exists, role, is_active]
    admin_staff,   \* table admin_staff: id -> number of rows with that id
    products,      \* table products: id -> [exists, is_active, data]
    orders,        \* table orders: id -> status
    logs,          \* table admin_activity_logs, in insertion order
    inv,           \* the invocations: proc -> record (see Idle)
    ftp,           \* the FTP client of each invocation (see NoFtp)
    server,        \* the FTP server: [dirs, files]
    env,           \* process.env as read by getFTPConfig: [ok, baseUrl]
    mw,            \* the last request the middleware handled and its outcome
    perm,          \* the last checkPermission call and its result
    sales,         \* the orders getSalesStats reads, its last call and result
    writes         \* history: the table changes made, with the caller's role

dbvars == <<profiles, admin_staff, products, orders, logs, writes>>
vars == <<profiles, admin_staff, products, orders, logs, inv, ftp, server,
          env, mw, perm, sales, writes>>

(***************************************************************************)
(* Helpers                                                                 *)
(***************************************************************************)
Last(s) == s[Len(s)]

IsPrefix(s, t) == Len(s) <= Len(t) /\ SubSeq(t, 1, Len(s)) = s

\* String.prototype.startsWith
StartsWith(path, prefix) == IsPrefix(prefix, path)

NoProfile == [exists |-> FALSE, role |-> NoRole, is_active |-> FALSE]

Idle == [op |-> "none", pc |-> "idle", session |-> NoUser, user |-> NoUser,
         target |-> "none", arg |-> "none", local |-> "none",
         callerRole |-> "none",
         failed |-> {}, result |-> [kind |-> "none", success |-> FALSE,
                                     error |-> "none"]]

\* A call of a server action or of the upload service, before its first step.
Call(op, pc, session, target, arg) ==
    [Idle EXCEPT !.op = op, !.pc = pc, !.session = session, !.target = target,
                 !.arg = arg]

\* What the database holds for a user's role: the role of an existing row.
RoleOf(u) == IF u \in Users /\ profiles[u].exists THEN profiles[u].role ELSE NoRole

\* .from("profiles").select("role").eq("id", u).single(): the row's role,
\* or null when the row is missing or the query fails.
SelectRole(u) == {RoleOf(u), NoRole}

\* .select("is_active").eq("id", t).single()
SelectActive(tbl, t) ==
    (IF tbl[t].exists THEN {IF tbl[t].is_active THEN "true" ELSE "false"} ELSE {})
        \cup {"null"}

\* The is_active a table holds for a row, as SelectActive gives it.
Stored(tbl, t) ==
    IF ~tbl[t].exists THEN "null" ELSE IF tbl[t].is_active THEN "true" ELSE "false"

\* JavaScript truthiness of a value read by SelectActive (null is falsy).
Truthy(v) == v = "true"

\* Faulty variant: the caller and the affected row change places.
LogRow_Swapped(admin, action, rtype, rid, changes) ==
    [admin_id |-> rid, action |-> action, resource_type |-> rtype,
     resource_id |-> admin, changes |-> changes]

LogRow(admin, action, rtype, rid, changes) ==
    [admin_id |-> admin, action |-> action, resource_type |-> rtype,
     resource_id |-> rid, changes |-> changes]

\* .from("admin_activity_logs").insert(row): appends, or fails and leaves
\* the table as it is.
InsertLog(row, ok) == IF ok THEN Append(logs, row) ELSE logs

Change(by, table) == [by |-> by, role |-> RoleOf(by), table |-> table]

\* A return statement of a server action.
Returned(c, success, error) ==
    [c EXCEPT !.pc = "done",
              !.result = [kind |-> "returned", success |-> success,
                          error |-> error]]

\* The catch block of a server action: the error is logged to the console
\* and turned into {success: false, error}.
CatchBlock(c, step, msg) == Returned([c EXCEPT !.failed = @ \cup {step}], FALSE, msg)

\* supabase.auth.getUser() at the head of every action, inside its try:
\* the session's user, no user (no session, or the auth call failed), or
\* an exception of createClient/getUser.
AuthOutcomes(session) == {session, NoUser, "throw"}

AfterAuth(c, out, next, msg) ==
    IF out = "throw" THEN CatchBlock(c, "auth", msg)
    ELSE IF out = NoUser
         THEN Returned([c EXCEPT !.failed =
                           IF c.session = NoUser THEN @ ELSE @ \cup {"auth"}],
                       FALSE, "Not authenticated")
         ELSE [c EXCEPT !.user = out, !.pc = next]

\* Faulty variant: the gate lets every staff role through.
AfterChiefCheck_AnyStaff(c, role, next, msg) ==
    IF role \notin {"agent", "admin", "chief_admin"}
    THEN Returned([c EXCEPT !.callerRole = role], FALSE, msg)
    ELSE [c EXCEPT !.callerRole = role, !.pc = next]

\* The chief_admin gate of the user management actions:
\* callerProfile?.role !== "chief_admin" returns the refusal.  callerRole
\* keeps the role the query gave.
AfterChiefCheck(c, role, next, msg) ==
    IF role # "chief_admin"
    THEN Returned([c EXCEPT !.callerRole = role,
                            !.failed =
                      IF role = RoleOf(c.user) THEN @ ELSE @ \cup {"callerProfile"}],
                  FALSE, msg)
    ELSE [c EXCEPT !.callerRole = role, !.pc = next]

(***************************************************************************)
(* User management                                                         *)
(***************************************************************************)
\* Faulty variant: the duplicate-key error is thrown like any other.
StaffErrorThrows_NoSwallow(code) == code # "none"

\* Faulty variant: the test on the code is inverted.
StaffErrorThrows_Inverted(code) == code = "23505"

\* if (staffError && staffError.code !== "23505") throw staffError
StaffErrorThrows(code) == code # "none" /\ code # "23505"

\* How a failed admin_staff insert is remembered in the invocation's history.
StaffErrorTag(code) == IF code = "23505" THEN "staffInsert23505" ELSE "staffInsert"

\* The outcomes of .from("admin_staff").insert({id: t, ...}): the primary
\* key rejects a second row (23505), any insert may fail otherwise.
StaffInsertOutcomes(t) ==
    (IF admin_staff[t] > 0 THEN {"23505"} ELSE {"none"}) \cup {"other"}

PromoteUser(p) ==
    LET c == inv[p] IN
    /\ c.op = "promoteUser"
    /\ \/ /\ c.pc = "auth"
          /\ \E out \in AuthOutcomes(c.session) :
                inv' = [inv EXCEPT ![p] =
                           AfterAuth(c, out, "callerProfile", "Failed to promote user")]
          /\ UNCHANGED dbvars
       \/ /\ c.pc = "callerProfile"
          /\ \E role \in SelectRole(c.user) :
                inv' = [inv EXCEPT ![p] =
                           AfterChiefCheck(c, role, "update",
                                           "Only chief admin can promote users")]
          /\ UNCHANGED dbvars
       \/ /\ c.pc = "update"
          /\ \E ok \in BOOLEAN :
                IF ok
                THEN /\ profiles' = IF profiles[c.target].exists
                                    THEN [profiles EXCEPT ![c.target].role = c.arg]
                                    ELSE profiles
                     /\ writes' = IF profiles' # profiles
                                  THEN writes \cup {Change(c.user, "profiles")}
                                  ELSE writes
                     /\ inv' = [inv EXCEPT ![p].pc =
                                   IF c.arg # "customer" THEN "staffInsert" ELSE "log"]
                ELSE /\ inv' = [inv EXCEPT ![p] = CatchBlock(c, "write", "db error")]
                     /\ UNCHANGED <<profiles, writes>>
          /\ UNCHANGED <<admin_staff, products, orders, logs>>
       \/ /\ c.pc = "staffInsert"
          /\ \E code \in StaffInsertOutcomes(c.target) :
                /\ admin_staff' = IF code = "none"
                                  THEN [admin_staff EXCEPT ![c.target] = @ + 1]
                                  ELSE admin_staff
                /\ writes' = IF code = "none"
                             THEN writes \cup {Change(c.user, "admin_staff")}
                             ELSE writes
                /\ inv' = [inv EXCEPT ![p] =
                              IF StaffErrorThrows(code)
                              THEN CatchBlock(c, StaffErrorTag(code), "db error")
                              ELSE [c EXCEPT !.pc = "log",
                                             !.failed = IF code = "none" THEN @
                                                        ELSE @ \cup {StaffErrorTag(code)}]]
          /\ UNCHANGED <<profiles, products, orders, logs>>
       \/ /\ c.pc = "log"
          /\ \E ok \in BOOLEAN :
                /\ logs' = InsertLog(LogRow(c.user, "user_promoted", "user", c.target,
                                            <<<<"new_role", c.arg>>>>), ok)
                /\ inv' = [inv EXCEPT ![p] =
                              Returned([c EXCEPT !.failed =
                                           IF ok THEN @ ELSE @ \cup {"log"}],
                                       TRUE, "none")]
          /\ UNCHANGED <<profiles, admin_staff, products, orders, writes>>
    /\ UNCHANGED <<ftp, server, env, mw, perm, sales>>

\* .from("admin_staff").delete().eq("id", t): removes every row with that
\* id, or fails and removes nothing; the actions do not look at its error.
StaffDelete(c, ok) ==
    /\ admin_staff' = IF ok THEN [admin_staff EXCEPT ![c.target] = 0] ELSE admin_staff
    /\ writes' = IF admin_staff' # admin_staff
                 THEN writes \cup {Change(c.user, "admin_staff")}
                 ELSE writes

DemoteUser(p) ==
    LET c == inv[p] IN
    /\ c.op = "demoteUser"
    /\ \/ /\ c.pc = "auth"
          /\ \E out \in AuthOutcomes(c.session) :
                inv' = [inv EXCEPT ![p] =
                           AfterAuth(c, out, "callerProfile", "Failed to demote user")]
          /\ UNCHANGED dbvars
       \/ /\ c.pc = "callerProfile"
          /\ \E role \in SelectRole(c.user) :
                inv' = [inv EXCEPT ![p] =
                           AfterChiefCheck(c, role, "targetRead",
                                           "Only chief admin can demote users")]
          /\ UNCHANGED dbvars
       \/ /\ c.pc = "targetRead"
          /\ \E old \in SelectRole(c.target) :
                inv' = [inv EXCEPT ![p].pc = "update", ![p].local = old,
                                   ![p].failed = IF old = RoleOf(c.target) THEN @
                                                 ELSE @ \cup {"targetRead"}]
          /\ UNCHANGED dbvars
       \/ /\ c.pc = "update"
          /\ \E ok \in BOOLEAN :
                IF ok
                THEN /\ profiles' = IF profiles[c.target].exists
                                    THEN [profiles EXCEPT ![c.target].role = "customer"]
                                    ELSE profiles
                     /\ writes' = IF profiles' # profiles
                                  THEN writes \cup {Change(c.user, "profiles")}
                                  ELSE writes
                     /\ inv' = [inv EXCEPT ![p].pc = "staffDelete"]
                ELSE /\ inv' = [inv EXCEPT ![p] = CatchBlock(c, "write", "db error")]
                     /\ UNCHANGED <<profiles, writes>>
          /\ UNCHANGED <<admin_staff, products, orders, logs>>
       \/ /\ c.pc = "staffDelete"
          /\ \E ok \in BOOLEAN :
                /\ StaffDelete(c, ok)
                /\ inv' = [inv EXCEPT ![p].pc = "log",
                                      ![p].failed = IF ok THEN @ ELSE @ \cup {"staffDelete"}]
          /\ UNCHANGED <<profiles, products, orders, logs>>
       \/ /\ c.pc = "log"
          /\ \E ok \in BOOLEAN :
                /\ logs' = InsertLog(LogRow(c.user, "user_demoted", "user", c.target,
                                            <<<<"old_role", c.local>>,
                                              <<"new_role", "customer">>>>), ok)
                /\ inv' = [inv EXCEPT ![p] =
                              Returned([c EXCEPT !.failed =
                                           IF ok THEN @ ELSE @ \cup {"log"}],
                                       TRUE, "none")]
          /\ UNCHANGED <<profiles, admin_staff, products, orders, writes>>
    /\ UNCHANGED <<ftp, server, env, mw, perm, sales>>


\* What the deletion of a profiles row does to the admin_activity_logs rows
\* whose admin_id refers to it ("Delete from profiles (cascades to other
\* tables)"; getActivityLogs reads the log joined to profiles through that
\* reference): the rule of the reference is the database's, so the rows are
\* removed with the profile, keep their place with admin_id null, or stay.
LogReferenceRules == {"cascade", "set null", "none"}

OnProfileDelete(t, rule) ==
    CASE rule = "cascade" -> SelectSeq(logs, LAMBDA r : r.admin_id # t)
      [] rule = "set null" ->
            [i \in DOMAIN logs |->
                IF logs[i].admin_id = t THEN [logs[i] EXCEPT !.admin_id = "null"]
                ELSE logs[i]]
      [] rule = "none" -> logs

DeleteUser(p) ==
    LET c == inv[p] IN
    /\ c.op = "deleteUser"
    /\ \/ /\ c.pc = "auth"
          /\ \E out \in AuthOutcomes(c.session) :
                inv' = [inv EXCEPT ![p] =
                           AfterAuth(c, out, "callerProfile", "Failed to delete user")]
          /\ UNCHANGED dbvars
       \/ /\ c.pc = "callerProfile"
          /\ \E role \in SelectRole(c.user) :
                inv' = [inv EXCEPT ![p] =
                           AfterChiefCheck(c, role, "staffDelete",
                                           "Only chief admin can delete users")]
          /\ UNCHANGED dbvars
       \/ /\ c.pc = "staffDelete"
          /\ \E ok \in BOOLEAN :
                /\ StaffDelete(c, ok)
                /\ inv' = [inv EXCEPT ![p].pc = "profileDelete",
                                      ![p].failed = IF ok THEN @ ELSE @ \cup {"staffDelete"}]
          /\ UNCHANGED <<profiles, products, orders, logs>>
       \/ /\ c.pc = "profileDelete"
          /\ \E ok \in BOOLEAN :
                IF ok
                THEN /\ profiles' = [profiles EXCEPT ![c.target] = NoProfile]
                     /\ \E rule \in LogReferenceRules :
                           logs' = OnProfileDelete(c.target, rule)
                     /\ writes' = IF profiles' # profiles
                                  THEN writes \cup {Change(c.user, "profiles")}
                                  ELSE writes
                     /\ inv' = [inv EXCEPT ![p].pc = "log"]
                ELSE /\ inv' = [inv EXCEPT ![p] = CatchBlock(c, "write", "db error")]
                     /\ UNCHANGED <<profiles, writes, logs>>
          /\ UNCHANGED <<admin_staff, products, orders>>
       \/ /\ c.pc = "log"
          /\ \E ok \in BOOLEAN :
                /\ logs' = InsertLog(LogRow(c.user, "user_deleted", "user", c.target,
                                            <<>>), ok)
                /\ inv' = [inv EXCEPT ![p] =
                              Returned([c EXCEPT !.failed =
                                           IF ok THEN @ ELSE @ \cup {"log"}],
                                       TRUE, "none")]
          /\ UNCHANGED <<profiles, admin_staff, products, orders, writes>>
    /\ UNCHANGED <<ftp, server, env, mw, perm, sales>>

\* `user_${targetProfile?.is_active ? "deactivated" : "activated"}`
ToggleAction(kind, read) ==
    IF Truthy(read) THEN <<kind, "_deactivated">> ELSE <<kind, "_activated">>

ToggleUserStatus(p) ==
    LET c == inv[p] IN
    /\ c.op = "toggleUserStatus"
    /\ \/ /\ c.pc = "auth"
          /\ \E out \in AuthOutcomes(c.session) :
                inv' = [inv EXCEPT ![p] =
                           AfterAuth(c, out, "callerProfile",
                                     "Failed to toggle user status")]
          /\ UNCHANGED dbvars
       \/ /\ c.pc = "callerProfile"
          /\ \E role \in SelectRole(c.user) :
                inv' = [inv EXCEPT ![p] =
                           AfterChiefCheck(c, role, "targetRead",
                                           "Only chief admin can toggle user status")]
          /\ UNCHANGED dbvars
       \/ /\ c.pc = "targetRead"
          /\ \E v \in SelectActive(profiles, c.target) :
                inv' = [inv EXCEPT ![p].pc = "update", ![p].local = v,
                                   ![p].failed = IF v = "null" /\ profiles[c.target].exists
                                                 THEN @ \cup {"targetRead"} ELSE @]
          /\ UNCHANGED dbvars
       \/ /\ c.pc = "update"
          /\ \E ok \in BOOLEAN :
                IF ok
                THEN /\ profiles' = IF profiles[c.target].exists
                                    THEN [profiles EXCEPT ![c.target].is_active =
                                                              ~Truthy(c.local)]
                                    ELSE profiles
                     /\ writes' = IF profiles' # profiles
                                  THEN writes \cup {Change(c.user, "profiles")}
                                  ELSE writes
                     \* history: arg keeps the value the update replaced
                     /\ inv' = [inv EXCEPT ![p].pc = "log",
                                           ![p].arg = Stored(profiles, c.target)]
                ELSE /\ inv' = [inv EXCEPT ![p] = CatchBlock(c, "write", "db error")]
                     /\ UNCHANGED <<profiles, writes>>
          /\ UNCHANGED <<admin_staff, products, orders, logs>>
       \/ /\ c.pc = "log"
          /\ \E ok \in BOOLEAN :
                /\ logs' = InsertLog(LogRow(c.user, ToggleAction("user", c.local),
                                            "user", c.target, <<>>), ok)
                /\ inv' = [inv EXCEPT ![p] =
                              Returned([c EXCEPT !.failed =
                                           IF ok THEN @ ELSE @ \cup {"log"}],
                                       TRUE, "none")]
          /\ UNCHANGED <<profiles, admin_staff, products, orders, writes>>
    /\ UNCHANGED <<ftp, server, env, mw, perm, sales>>

(***************************************************************************)
(* Product and order management                                            *)
(***************************************************************************)
NoProduct == [exists |-> FALSE, is_active |-> FALSE, data |-> "none"]

FreePids == {i \in Pids : ~products[i].exists}

CreateProduct(p) ==
    LET c == inv[p] IN
    /\ c.op = "createProduct"
    /\ \/ /\ c.pc = "auth"
          /\ \E out \in AuthOutcomes(c.session) :
                inv' = [inv EXCEPT ![p] =
                           AfterAuth(c, out, "staffRead", "Failed to create product")]
          /\ UNCHANGED dbvars
       \/ /\ c.pc = "staffRead"
          \* adminStaff?.id || null: the caller's id when the row is read
          /\ \E ok \in BOOLEAN :
                inv' = [inv EXCEPT ![p].pc = "insert",
                                   ![p].local = IF ok /\ admin_staff[c.user] > 0
                                                THEN c.user ELSE "null",
                                   ![p].failed = IF ~ok /\ admin_staff[c.user] > 0
                                                 THEN @ \cup {"staffRead"} ELSE @]
          /\ UNCHANGED dbvars
       \/ /\ c.pc = "insert"
          /\ \/ \E id \in FreePids :
                   /\ products' = [products EXCEPT ![id] =
                                      [exists |-> TRUE, is_active |-> TRUE,
                                       data |-> c.arg]]
                   /\ writes' = writes \cup {Change(c.user, "products")}
                   /\ inv' = [inv EXCEPT ![p].pc = "log", ![p].target = id]
             \/ /\ inv' = [inv EXCEPT ![p] = CatchBlock(c, "write", "db error")]
                /\ UNCHANGED <<products, writes>>
          /\ UNCHANGED <<profiles, admin_staff, orders, logs>>
       \/ /\ c.pc = "log"
          /\ \E ok \in BOOLEAN :
                /\ logs' = InsertLog(LogRow(c.user, "product_created", "product",
                                            c.target, <<<<"name", c.arg>>>>), ok)
                /\ inv' = [inv EXCEPT ![p] =
                              Returned([c EXCEPT !.failed =
                                           IF ok THEN @ ELSE @ \cup {"log"}],
                                       TRUE, "none")]
          /\ UNCHANGED <<profiles, admin_staff, products, orders, writes>>
    /\ UNCHANGED <<ftp, server, env, mw, perm, sales>>

UpdateProduct(p) ==
    LET c == inv[p] IN
    /\ c.op = "updateProduct"
    /\ \/ /\ c.pc = "auth"
          /\ \E out \in AuthOutcomes(c.session) :
                inv' = [inv EXCEPT ![p] =
                           AfterAuth(c, out, "update", "Failed to update product")]
          /\ UNCHANGED dbvars
       \/ /\ c.pc = "update"
          /\ \E ok \in BOOLEAN :
                IF ok
                THEN /\ products' = IF products[c.target].exists
                                    THEN [products EXCEPT ![c.target].data = c.arg]
                                    ELSE products
                     /\ writes' = IF products' # products
                                  THEN writes \cup {Change(c.user, "products")}
                                  ELSE writes
                     /\ inv' = [inv EXCEPT ![p].pc = "log"]
                ELSE /\ inv' = [inv EXCEPT ![p] = CatchBlock(c, "write", "db error")]
                     /\ UNCHANGED <<products, writes>>
          /\ UNCHANGED <<profiles, admin_staff, orders, logs>>
       \/ /\ c.pc = "log"
          /\ \E ok \in BOOLEAN :
                /\ logs' = InsertLog(LogRow(c.user, "product_updated", "product",
                                            c.target, <<<<"updates", c.arg>>>>), ok)
                /\ inv' = [inv EXCEPT ![p] =
                              Returned([c EXCEPT !.failed =
                                           IF ok THEN @ ELSE @ \cup {"log"}],
                                       TRUE, "none")]
          /\ UNCHANGED <<profiles, admin_staff, products, orders, writes>>
    /\ UNCHANGED <<ftp, server, env, mw, perm, sales>>

DeleteProduct(p) ==
    LET c == inv[p] IN
    /\ c.op = "deleteProduct"
    /\ \/ /\ c.pc = "auth"
          /\ \E out \in AuthOutcomes(c.session) :
                inv' = [inv EXCEPT ![p] =
                           AfterAuth(c, out, "delete", "Failed to delete product")]
          /\ UNCHANGED dbvars
       \/ /\ c.pc = "delete"
          /\ \E ok \in BOOLEAN :
                IF ok
                THEN /\ products' = [products EXCEPT ![c.target] = NoProduct]
                     /\ writes' = IF products' # products
                                  THEN writes \cup {Change(c.user, "products")}
                                  ELSE writes
                     /\ inv' = [inv EXCEPT ![p].pc = "log"]
                ELSE /\ inv' = [inv EXCEPT ![p] = CatchBlock(c, "write", "db error")]
                     /\ UNCHANGED <<products, writes>>
          /\ UNCHANGED <<profiles, admin_staff, orders, logs>>
       \/ /\ c.pc = "log"
          /\ \E ok \in BOOLEAN :
                /\ logs' = InsertLog(LogRow(c.user, "product_deleted", "product",
                                            c.target, <<>>), ok)
                /\ inv' = [inv EXCEPT ![p] =
                              Returned([c EXCEPT !.failed =
                                           IF ok THEN @ ELSE @ \cup {"log"}],
                                       TRUE, "none")]
          /\ UNCHANGED <<profiles, admin_staff, products, orders, writes>>
    /\ UNCHANGED <<ftp, server, env, mw, perm, sales>>

ToggleProductStatus(p) ==
    LET c == inv[p] IN
    /\ c.op = "toggleProductStatus"
    /\ \/ /\ c.pc = "auth"
          /\ \E out \in AuthOutcomes(c.session) :
                inv' = [inv EXCEPT ![p] =
                           AfterAuth(c, out, "read", "Failed to toggle product status")]
          /\ UNCHANGED dbvars
       \/ /\ c.pc = "read"
          /\ \E v \in SelectActive(products, c.target) :
                inv' = [inv EXCEPT ![p].pc = "update", ![p].local = v,
                                   ![p].failed = IF v = "null" /\ products[c.target].exists
                                                 THEN @ \cup {"targetRead"} ELSE @]
          /\ UNCHANGED dbvars
       \/ /\ c.pc = "update"
          /\ \E ok \in BOOLEAN :
                IF ok
                THEN /\ products' = IF products[c.target].exists
                                    THEN [products EXCEPT ![c.target].is_active =
                                                              ~Truthy(c.local)]
                                    ELSE products
                     /\ writes' = IF products' # products
                                  THEN writes \cup {Change(c.user, "products")}
                                  ELSE writes
                     \* history: arg keeps the value the update replaced
                     /\ inv' = [inv EXCEPT ![p].pc = "log",
                                           ![p].arg = Stored(products, c.target)]
                ELSE /\ inv' = [inv EXCEPT ![p] = CatchBlock(c, "write", "db error")]
                     /\ UNCHANGED <<products, writes>>
          /\ UNCHANGED <<profiles, admin_staff, orders, logs>>
       \/ /\ c.pc = "log"
          /\ \E ok \in BOOLEAN :
                /\ logs' = InsertLog(LogRow(c.user, ToggleAction("product", c.local),
                                            "product", c.target, <<>>), ok)
                /\ inv' = [inv EXCEPT ![p] =
                              Returned([c EXCEPT !.failed =
                                           IF ok THEN @ ELSE @ \cup {"log"}],
                                       TRUE, "none")]
          /\ UNCHANGED <<profiles, admin_staff, products, orders, writes>>
    /\ UNCHANGED <<ftp, server, env, mw, perm, sales>>

UpdateOrderStatus(p) ==
    LET c == inv[p] IN
    /\ c.op = "updateOrderStatus"
    /\ \/ /\ c.pc = "auth"
          /\ \E out \in AuthOutcomes(c.session) :
                inv' = [inv EXCEPT ![p] =
                           AfterAuth(c, out, "update", "Failed to update order status")]
          /\ UNCHANGED dbvars
       \/ /\ c.pc = "update"
          /\ \E ok \in BOOLEAN :
                IF ok
                THEN /\ orders' = [orders EXCEPT ![c.target] = c.arg]
                     /\ writes' = IF orders' # orders
                                  THEN writes \cup {Change(c.user, "orders")}
                                  ELSE writes
                     /\ inv' = [inv EXCEPT ![p].pc = "log"]
                ELSE /\ inv' = [inv EXCEPT ![p] = CatchBlock(c, "write", "db error")]
                     /\ UNCHANGED <<orders, writes>>
          /\ UNCHANGED <<profiles, admin_staff, products, logs>>
       \/ /\ c.pc = "log"
          /\ \E ok \in BOOLEAN :
                /\ logs' = InsertLog(LogRow(c.user, "order_status_updated", "order",
                                            c.target, <<<<"new_status", c.arg>>>>), ok)
                /\ inv' = [inv EXCEPT ![p] =
                              Returned([c EXCEPT !.failed =
                                           IF ok THEN @ ELSE @ \cup {"log"}],
                                       TRUE, "none")]
          /\ UNCHANGED <<profiles, admin_staff, products, orders, writes>>
    /\ UNCHANGED <<ftp, server, env, mw, perm, sales>>

(***************************************************************************)
(* FTP upload service                                                      *)
(***************************************************************************)
Timestamps == {"1700000000001", "1700000000002"}
Randoms == {"k3f9x1"}
FileNames == {<<"photo", ".", "jpg">>, <<"a", ".", "tar", ".", "gz">>,
              <<"photo">>, <<"photo", ".">>}
Folders == {<<"products">>, <<"products", "/", "images">>}
ExistingFile == <<"old", ".", "jpg">>
DeleteNames == {ExistingFile, <<"missing", ".", "jpg">>}
BaseUrls == {<<"https://cdn.example.com">>, <<"https://cdn.example.com", "/">>,
             <<"https://cdn.example.com", "/", "/">>}

\* The frame of uploadMultipleFilesToFTP while it awaits uploadFileToFTP:
\* its files, the index of the file of the loop, its results so far, and
\* (history) the connections earlier uploads of the call started and did
\* not end.
NoBatch == [active |-> FALSE, files |-> <<>>, folder |-> <<>>, k |-> 0,
            results |-> <<>>, open |-> 0]

NoFtp == [started |-> FALSE, client |-> "null", ended |-> FALSE, trace |-> <<>>,
          parts |-> <<>>, idx |-> 0, filename |-> <<>>, remotePath |-> <<>>,
          putPath |-> <<>>, url |-> <<>>, probes |-> <<>>, batch |-> NoBatch]

\* One cwd or mkdir of ensureDirectoryExists: the command, its argument and
\* whether it succeeded.
Probe(cmd, path, ok) == [cmd |-> cmd, path |-> path, ok |-> ok]

\* String.prototype.split(sep): the pieces between the separators, in order
\* (k + 1 pieces for k separators, empty pieces included).
RECURSIVE Split(_, _)
Split(s, sep) ==
    IF \A i \in 1..Len(s) : s[i] # sep THEN <<s>>
    ELSE LET k == CHOOSE i \in 1..Len(s) :
                     s[i] = sep /\ \A j \in 1..(i - 1) : s[j] # sep
         IN <<SubSeq(s, 1, k - 1)>> \o Split(SubSeq(s, k + 1, Len(s)), sep)

\* Array.prototype.filter(Boolean) on strings: the non-empty ones.
FilterNonEmpty(ss) == SelectSeq(ss, LAMBDA x : x # <<>>)

\* baseUrl.replace(/\/$/, ""): one trailing slash removed.
StripTrailingSlash(u) ==
    IF Len(u) > 0 /\ Last(u) = "/" THEN SubSeq(u, 1, Len(u) - 1) ELSE u

\* getFTPConfig(): null (ok false) when a variable is missing.
GetFTPConfig ==
    IF env.ok THEN [ok |-> TRUE, baseUrl |-> StripTrailingSlash(env.baseUrl)]
    ELSE [ok |-> FALSE, baseUrl |-> <<>>]

\* file.name.split(".").pop() || "file"
FileExtension(name) ==
    LET popped == Last(Split(name, ".")) IN
    IF popped = <<>> THEN <<"file">> ELSE popped

\* `${timestamp}-${randomString}.${fileExtension}`
Filename(ts, rnd, name) == <<ts, "-", rnd, ".">> \o FileExtension(name)

\* `/${folder}/${filename}`
RemotePath(folder, filename) == <<"/">> \o folder \o <<"/">> \o filename

\* Faulty variant: the folder is left out of the public URL.
PublicUrl_NoFolder(baseUrl, folder, filename) == baseUrl \o <<"/">> \o filename

\* `${config.baseUrl}/${folder}/${filename}`
PublicUrl(baseUrl, folder, filename) == baseUrl \o <<"/">> \o folder \o <<"/">> \o filename

\* The directory a path string names on the server: its non-empty segments
\* (the login directory is the root, so relative and absolute paths agree).
Segments(path) == FilterNonEmpty(Split(path, "/"))

\* The path string "/s1/.../sk" the loop of ensureDirectoryExists builds
\* from the first k parts: currentPath += "/" + part.
RECURSIVE CurrentPath(_, _)
CurrentPath(parts, k) ==
    IF k = 0 THEN <<>> ELSE CurrentPath(parts, k - 1) \o <<"/">> \o parts[k]

DirOf(path) == LET s == Segments(path) IN SubSeq(s, 1, Len(s) - 1)

\* finally { if (client) client.end() }
Finally(f) ==
    IF f.client # "null"
    THEN [f EXCEPT !.ended = TRUE, !.trace = Append(@, "end")]
    ELSE f

\* connectFTP: new FTP(), the two listeners, client.connect(...).
ConnectCall(f) == [f EXCEPT !.started = TRUE, !.trace = Append(@, "connect")]

\* Faulty variant: the upload is put without the directory step.
AfterReady_SkipEnsure == "put"

\* Where uploadFileToFTP goes once the connection is ready: the buffer is
\* made, put is bound, and ensureDirectoryExists is awaited.
AfterReady == "cwd"

\* Where the call goes when ensureDirectoryExists has returned.
AfterEnsure == "put"

EnsureDone(f) == [f EXCEPT !.trace = Append(@, "ensured")]

\* Faulty variant: the loop goes on to the next part after a failed mkdir.
MkdirErrorEndsLoop_Continue == FALSE

\* await mkdir(currentPath) is not caught inside the loop: its error leaves
\* the for loop for the outer catch (mkdirError).
MkdirErrorEndsLoop == TRUE

UploadFileToFTP(p) ==
    LET c == inv[p]
        f == ftp[p]
    IN
    /\ c.op = "uploadFileToFTP"
    /\ \/ /\ c.pc = "config"
          /\ IF ~GetFTPConfig.ok
             THEN /\ inv' = [inv EXCEPT ![p] =
                                Returned(c, FALSE, "FTP configuration is missing")]
                  /\ UNCHANGED ftp
             ELSE \E ts \in Timestamps, rnd \in Randoms :
                     LET fn == Filename(ts, rnd, c.arg) IN
                     /\ ftp' = [ftp EXCEPT ![p] =
                                   ConnectCall([f EXCEPT !.filename = fn,
                                                         !.remotePath =
                                                             RemotePath(c.target, fn)])]
                     /\ inv' = [inv EXCEPT ![p].pc = "connecting"]
          /\ UNCHANGED server
       \/ /\ c.pc = "connecting"
          /\ \/ /\ ftp' = [ftp EXCEPT ![p].client = "ready",
                                      ![p].trace = Append(@, "ready")]
                /\ inv' = [inv EXCEPT ![p].pc = AfterReady]
             \/ /\ ftp' = [ftp EXCEPT ![p] = Finally(f)]
                /\ inv' = [inv EXCEPT ![p] = CatchBlock(c, "connect", "ftp error")]
          /\ UNCHANGED server
       \/ /\ c.pc = "cwd"
          \* ensureDirectoryExists: await cwd(directory)
          /\ \E ok \in {Segments(c.target) \in server.dirs, FALSE} :
                LET g == [f EXCEPT !.trace = Append(@, "cwd"),
                                   !.probes = Append(@, Probe("cwd", c.target, ok))]
                    \* directory.split("/").filter(Boolean)
                    parts == FilterNonEmpty(Split(c.target, "/"))
                IN
                IF ok \/ parts = <<>>
                THEN /\ ftp' = [ftp EXCEPT ![p] = EnsureDone(g)]
                     /\ inv' = [inv EXCEPT ![p].pc = AfterEnsure,
                                           ![p].failed = IF ok THEN @ ELSE @ \cup {"cwd"}]
                ELSE /\ ftp' = [ftp EXCEPT ![p] = [g EXCEPT !.parts = parts, !.idx = 1]]
                     /\ inv' = [inv EXCEPT ![p].pc = "cwdPart",
                                           ![p].failed = @ \cup {"cwd"}]
          /\ UNCHANGED server
       \/ /\ c.pc = "cwdPart"
          \* await cwd(currentPath)
          /\ \E ok \in {Segments(CurrentPath(f.parts, f.idx)) \in server.dirs, FALSE} :
                LET g == [f EXCEPT !.trace = Append(@, "cwd"),
                                   !.probes = Append(@, Probe("cwd",
                                                  CurrentPath(f.parts, f.idx), ok))]
                IN
                IF ~ok
                THEN /\ ftp' = [ftp EXCEPT ![p] = g]
                     /\ inv' = [inv EXCEPT ![p].pc = "mkdirPart",
                                           ![p].failed = @ \cup {"cwd"}]
                ELSE IF f.idx = Len(f.parts)
                THEN /\ ftp' = [ftp EXCEPT ![p] = EnsureDone(g)]
                     /\ inv' = [inv EXCEPT ![p].pc = AfterEnsure]
                ELSE /\ ftp' = [ftp EXCEPT ![p] = [g EXCEPT !.idx = @ + 1]]
                     /\ UNCHANGED inv
          /\ UNCHANGED server
       \/ /\ c.pc = "mkdirPart"
          \* await mkdir(currentPath); a failure leaves the loop and is only warned about
          /\ LET dir == Segments(CurrentPath(f.parts, f.idx)) IN
             \E ok \in {dir \notin server.dirs /\ DirOf(CurrentPath(f.parts, f.idx))
                                                      \in server.dirs, FALSE} :
                LET g == [f EXCEPT !.trace = Append(@, "mkdir"),
                                   !.probes = Append(@, Probe("mkdir",
                                                  CurrentPath(f.parts, f.idx), ok))]
                IN
                IF ~ok
                THEN /\ IF MkdirErrorEndsLoop \/ f.idx = Len(f.parts)
                        THEN /\ ftp' = [ftp EXCEPT ![p] = EnsureDone(g)]
                             /\ inv' = [inv EXCEPT ![p].pc = AfterEnsure,
                                                   ![p].failed = @ \cup {"mkdir"}]
                        ELSE /\ ftp' = [ftp EXCEPT ![p] = [g EXCEPT !.idx = @ + 1]]
                             /\ inv' = [inv EXCEPT ![p].pc = "cwdPart",
                                                   ![p].failed = @ \cup {"mkdir"}]
                     /\ UNCHANGED server
                ELSE /\ server' = [server EXCEPT !.dirs = @ \cup {dir}]
                     /\ IF f.idx = Len(f.parts)
                        THEN /\ ftp' = [ftp EXCEPT ![p] = EnsureDone(g)]
                             /\ inv' = [inv EXCEPT ![p].pc = AfterEnsure]
                        ELSE /\ ftp' = [ftp EXCEPT ![p] = [g EXCEPT !.idx = @ + 1]]
                             /\ inv' = [inv EXCEPT ![p].pc = "cwdPart"]
       \/ /\ c.pc = "put"
          \* await put(readableStream, remotePath), then the return and finally
          /\ \E ok \in {DirOf(f.remotePath) \in server.dirs, FALSE} :
                LET g == [f EXCEPT !.trace = Append(@, "put"),
                                   !.putPath = f.remotePath]
                IN
                IF ok
                THEN /\ server' = [server EXCEPT !.files = @ \cup {f.remotePath}]
                     /\ ftp' = [ftp EXCEPT ![p] =
                                   Finally([g EXCEPT !.url =
                                               PublicUrl(GetFTPConfig.baseUrl, c.target,
                                                         f.filename)])]
                     /\ inv' = [inv EXCEPT ![p] = Returned(c, TRUE, "none")]
                ELSE /\ ftp' = [ftp EXCEPT ![p] = Finally(g)]
                     /\ inv' = [inv EXCEPT ![p] = CatchBlock(c, "put", "ftp error")]
                     /\ UNCHANGED server
    /\ UNCHANGED <<dbvars, env, mw, perm, sales>>

DeleteFileFromFTP(p) ==
    LET c == inv[p]
        f == ftp[p]
    IN
    /\ c.op = "deleteFileFromFTP"
    /\ \/ /\ c.pc = "config"
          /\ IF ~GetFTPConfig.ok
             THEN /\ inv' = [inv EXCEPT ![p] =
                                Returned(c, FALSE, "FTP configuration is missing.")]
                  /\ UNCHANGED ftp
             ELSE /\ ftp' = [ftp EXCEPT ![p] = ConnectCall(f)]
                  /\ inv' = [inv EXCEPT ![p].pc = "connecting"]
          /\ UNCHANGED server
       \/ /\ c.pc = "connecting"
          /\ \/ /\ ftp' = [ftp EXCEPT ![p].client = "ready",
                                      ![p].trace = Append(@, "ready"),
                                      ![p].remotePath = RemotePath(c.target, c.arg)]
                /\ inv' = [inv EXCEPT ![p].pc = "delete"]
             \/ /\ ftp' = [ftp EXCEPT ![p] = Finally(f)]
                /\ inv' = [inv EXCEPT ![p] = CatchBlock(c, "connect", "ftp error")]
          /\ UNCHANGED server
       \/ /\ c.pc = "delete"
          /\ \E ok \in {f.remotePath \in server.files, FALSE} :
                LET g == [f EXCEPT !.trace = Append(@, "delete")] IN
                IF ok
                THEN /\ server' = [server EXCEPT !.files = @ \ {f.remotePath}]
                     /\ ftp' = [ftp EXCEPT ![p] = Finally(g)]
                     /\ inv' = [inv EXCEPT ![p] = Returned(c, TRUE, "none")]
                ELSE /\ ftp' = [ftp EXCEPT ![p] = Finally(g)]
                     /\ inv' = [inv EXCEPT ![p] = CatchBlock(c, "delete", "ftp error")]
                     /\ UNCHANGED server
    /\ UNCHANGED <<dbvars, env, mw, perm, sales>>

\* Files in one uploadMultipleFilesToFTP call.
MaxFiles == 2

BatchNames == {<<"photo", ".", "jpg">>, <<"photo", ".">>}
BatchInputs == UNION {[1..n -> BatchNames] : n \in 0..MaxFiles}

\* The UploadResult of an uploadFileToFTP call that has returned, with
\* (history) the file it was called for.
UploadResult(c, f) == [file |-> c.arg, success |-> c.result.success,
                       url |-> f.url, error |-> c.result.error]

\* for (const file of files): the loop goes on while files are left.
LoopGoesOn(b) == b.k <= Len(b.files)

\* uploadMultipleFilesToFTP(files, folder): for each file in turn, await
\* uploadFileToFTP(file, folder) and push its result; then return the
\* results.  While an upload runs, inv[p] is the call of uploadFileToFTP.
UploadMultipleFilesToFTP(p) ==
    LET c == inv[p]
        f == ftp[p]
        b == ftp[p].batch
    IN
    /\ b.active
    /\ \/ /\ c.op = "uploadMultipleFilesToFTP" /\ c.pc = "loop"
          /\ IF LoopGoesOn(b)
             THEN /\ inv' = [inv EXCEPT ![p] =
                                Call("uploadFileToFTP", "config", NoUser, b.folder,
                                     b.files[b.k])]
                  /\ ftp' = [ftp EXCEPT ![p] =
                                [NoFtp EXCEPT !.batch =
                                    [b EXCEPT !.open = IF f.started /\ ~f.ended
                                                       THEN @ + 1 ELSE @]]]
             ELSE /\ inv' = [inv EXCEPT ![p] = Returned(c, TRUE, "none")]
                  /\ UNCHANGED ftp
       \/ /\ c.op = "uploadFileToFTP" /\ c.pc = "done"
          \* results.push(result)
          /\ inv' = [inv EXCEPT ![p] =
                        Call("uploadMultipleFilesToFTP", "loop", NoUser, b.folder,
                             b.files)]
          /\ ftp' = [ftp EXCEPT ![p].batch =
                        [b EXCEPT !.results = Append(@, UploadResult(c, f)),
                                  !.k = @ + 1]]
    /\ UNCHANGED <<dbvars, server, env, mw, perm, sales>>

(***************************************************************************)
(* Permission helper and middleware                                        *)
(***************************************************************************)
\* const roleHierarchy: Record<UserRole, number>
roleHierarchy(r) ==
    CASE r = "customer" -> 0
      [] r = "agent" -> 1
      [] r = "admin" -> 2
      [] r = "chief_admin" -> 3

\* Faulty variant: a strict comparison.
HasRank_Strict(role, requiredRole) == roleHierarchy(role) > roleHierarchy(requiredRole)

\* return roleHierarchy[profile.role] >= roleHierarchy[requiredRole]
HasRank(role, requiredRole) == roleHierarchy(role) >= roleHierarchy(requiredRole)

\* checkPermission(requiredRole), given what getUser and the profile query
\* gave: every failure, a thrown one included, ends in false.
checkPermission(out, role, requiredRole) ==
    IF out = "throw" THEN FALSE
    ELSE IF out = NoUser THEN FALSE
    ELSE IF role = NoRole THEN FALSE
    ELSE HasRank(role, requiredRole)

\* The null a permission query returns, in the shape of its object.
NullPermissions ==
    [null |-> TRUE, canManageUsers |-> FALSE, canManageProducts |-> FALSE,
     canManageOrders |-> FALSE, canViewAuditLogs |-> FALSE,
     canViewSalesLogs |-> FALSE, canManageAgents |-> FALSE, role |-> NoRole]

\* getAdminPermissions(), given what getUser and the profile query gave.
getAdminPermissions(out, role) ==
    IF out = "throw" THEN NullPermissions
    ELSE IF out = NoUser THEN NullPermissions
    ELSE IF role = NoRole THEN NullPermissions
    ELSE LET isChiefAdmin == role = "chief_admin"
             isAdmin == role = "admin" \/ isChiefAdmin
             isAgent == role = "agent" \/ isAdmin
         IN [null |-> FALSE, canManageUsers |-> isChiefAdmin,
             canManageProducts |-> isAgent, canManageOrders |-> isAgent,
             canViewAuditLogs |-> isAgent, canViewSalesLogs |-> isAgent,
             canManageAgents |-> isChiefAdmin, role |-> role]

NoPerm == [session |-> NoUser, user |-> NoUser, role |-> NoRole,
           required |-> "none", result |-> "none",
           permissions |-> NullPermissions]

CheckPermission ==
    /\ \E session \in Sessions, requiredRole \in UserRole :
         \E out \in AuthOutcomes(session) :
           \E role \in (IF out \in Users THEN SelectRole(out) ELSE {NoRole}) :
              perm' = [session |-> session, user |-> out, role |-> role,
                       required |-> requiredRole,
                       result |-> checkPermission(out, role, requiredRole),
                       permissions |-> NullPermissions]
    /\ UNCHANGED <<dbvars, inv, ftp, server, env, mw, sales>>

GetAdminPermissions ==
    /\ \E session \in Sessions :
         \E out \in AuthOutcomes(session) :
           \E role \in (IF out \in Users THEN SelectRole(out) ELSE {NoRole}) :
              perm' = [session |-> session, user |-> out, role |-> role,
                       required |-> "none", result |-> "none",
                       permissions |-> getAdminPermissions(out, role)]
    /\ UNCHANGED <<dbvars, inv, ftp, server, env, mw, sales>>

\* Path names, in chunks: "/" and the words between.
AdminPrefix == <<"/", "admin">>
AdminLogin == <<"/", "admin", "/", "login">>
AdminDashboard == <<"/", "admin", "/", "dashboard">>
ShopAuth == <<"/", "shop", "/", "auth">>
Root == <<"/">>

allowedRoles == {"admin", "agent", "chief_admin"}
\* Faulty variant: the user pages are left out of the chief admin routes.
chiefAdminOnlyRoutes_NoUsers == {<<"/", "admin", "/", "roles">>,
                                 <<"/", "admin", "/", "agents">>}

chiefAdminOnlyRoutes == {<<"/", "admin", "/", "users">>, <<"/", "admin", "/", "roles">>,
                         <<"/", "admin", "/", "agents">>}
\* Faulty variant: the sales log is left out of the agent restrictions.
agentRestrictedRoutes_AuditOnly == {<<"/", "admin", "/", "audit-log">>}

agentRestrictedRoutes == {<<"/", "admin", "/", "audit-log">>,
                          <<"/", "admin", "/", "sales-log">>}
\* Faulty variant: the checkout is left out of the protected customer routes.
protectedCustomerRoutes_NoCheckout == {<<"/", "shop", "/", "history">>,
                                       <<"/", "shop", "/", "wishlist">>}

protectedCustomerRoutes == {<<"/", "shop", "/", "history">>,
                            <<"/", "shop", "/", "wishlist">>,
                            <<"/", "shop", "/", "checkout">>}

\* The request paths tried: the routes themselves, paths below them, paths
\* that only share a prefix of characters with them, and unprotected paths.
Paths ==
    chiefAdminOnlyRoutes \cup agentRestrictedRoutes \cup protectedCustomerRoutes
    \cup {AdminPrefix, AdminLogin, AdminDashboard, ShopAuth, Root,
          <<"/", "admin", "/", "login", "/", "x">>,
          <<"/", "admin", "istrator">>,
          <<"/", "admin", "/", "catalog">>,
          <<"/", "admin", "/", "users", "/", "x">>,
          <<"/", "admin", "/", "audit-log", "/", "x">>,
          <<"/", "admin", "/", "sales-log", "x">>,
          <<"/", "shop">>,
          <<"/", "shop", "/", "history", "/", "x">>,
          <<"/", "shop", "/", "checkout", "x">>}

SomeStartsWith(routes, pathname) == \E route \in routes : StartsWith(pathname, route)

\* url.pathname.startsWith("/admin") && url.pathname !== "/admin/login"
InAdminArea(pathname) == StartsWith(pathname, AdminPrefix) /\ pathname # AdminLogin

Redirect(to, query) == [kind |-> "redirect", to |-> to, query |-> query, insert |-> FALSE]

Pass(insert) == [kind |-> "next", to |-> <<>>, query |-> <<>>, insert |-> insert]

\* What middleware(req) answers for a path name, the user getUser gave and
\* the role the profile query gave (NoRole: no row, or the query failed);
\* insert says whether the dashboard_access row is inserted on the way.
middleware(pathname, user, role) ==
    LET customerPart(insert) ==
            IF SomeStartsWith(protectedCustomerRoutes, pathname) /\ user = NoUser
            THEN Redirect(ShopAuth, <<"redirect", pathname>>)
            ELSE Pass(insert)
    IN
    IF InAdminArea(pathname)
    THEN IF user = NoUser THEN Redirect(AdminLogin, <<>>)
         ELSE IF role \notin allowedRoles THEN Redirect(Root, <<>>)
         ELSE IF SomeStartsWith(chiefAdminOnlyRoutes, pathname) /\ role # "chief_admin"
              THEN Redirect(AdminDashboard, <<>>)
         ELSE IF SomeStartsWith(agentRestrictedRoutes, pathname) /\ role = "agent"
              THEN Redirect(AdminDashboard, <<>>)
         ELSE customerPart(TRUE)
    ELSE customerPart(FALSE)

NoRequest == [pathname |-> <<>>, session |-> NoUser, user |-> NoUser, role |-> NoRole,
              outcome |-> [kind |-> "none", to |-> <<>>, query |-> <<>>,
                           insert |-> FALSE],
              logged |-> "none"]

\* What the awaited insert of the dashboard_access row can do: add the
\* row, answer with an error, or throw.
InsertResults == {"ok", "error", "throw"}

\* Faulty variant: the insert is not wrapped, and its exception ends the request.
AfterInsert_Rethrow(out, res) ==
    IF res = "throw" THEN [out EXCEPT !.kind = "error"] ELSE out

\* try { await ...insert(...) } catch (error) { console.error(...) }: the
\* answer of the insert is not looked at and its exception is swallowed.
AfterInsert(out, res) == out

\* Log rows the middleware may still add in one behaviour.
MaxLog == 1

\* One request through the middleware: getUser, the profile query when the
\* path is in the admin area and there is a user, the answer, and the
\* insert of the dashboard_access row, whose failure is not looked at.
MiddlewareRequest ==
    /\ Len(logs) < MaxLog
    /\ \E pathname \in Paths, session \in Sessions :
         \E user \in {session, NoUser} :
           \E role \in (IF InAdminArea(pathname) /\ user # NoUser
                        THEN SelectRole(user) ELSE {NoRole}) :
              LET out == middleware(pathname, user, role) IN
              \E res \in (IF out.insert THEN InsertResults ELSE {"none"}) :
                 /\ mw' = [pathname |-> pathname, session |-> session, user |-> user,
                           role |-> role, outcome |-> AfterInsert(out, res),
                           logged |-> res]
                 /\ logs' = InsertLog(LogRow(user, "dashboard_access",
                                             "admin_dashboard", "null",
                                             <<<<"path", pathname>>>>), res = "ok")
    /\ UNCHANGED <<profiles, admin_staff, products, orders, writes, inv, ftp,
                   server, env, perm, sales>>

(***************************************************************************)
(* Requests: a client calls a server action or the upload service          *)
(***************************************************************************)
CanStart(p) == inv[p].pc = "idle" /\ \A q \in Procs : q < p => inv[q].pc # "idle"

StartUserAction(p) ==
    /\ CanStart(p)
    /\ \E session \in Sessions, target \in Users :
          \/ \E newRole \in UserRole :
                inv' = [inv EXCEPT ![p] =
                           Call("promoteUser", "auth", session, target, newRole)]
          \/ \E op \in {"demoteUser", "deleteUser", "toggleUserStatus"} :
                inv' = [inv EXCEPT ![p] = Call(op, "auth", session, target, "none")]
    /\ UNCHANGED <<dbvars, ftp, server, env, mw, perm, sales>>

\* A call made when no other call is running.
StartUserActionAlone(p) ==
    /\ \A q \in Procs : inv[q].pc \in {"idle", "done"}
    /\ StartUserAction(p)

StartProductAction(p) ==
    /\ CanStart(p)
    /\ \E session \in Sessions :
          \/ \E data \in ProductUpdates :
                inv' = [inv EXCEPT ![p] =
                           Call("createProduct", "auth", session, "none", data)]
          \/ \E id \in Pids, data \in ProductUpdates :
                inv' = [inv EXCEPT ![p] =
                           Call("updateProduct", "auth", session, id, data)]
          \/ \E id \in Pids, op \in {"deleteProduct", "toggleProductStatus"} :
                inv' = [inv EXCEPT ![p] = Call(op, "auth", session, id, "none")]
          \/ \E id \in Oids, status \in OrderStatus :
                inv' = [inv EXCEPT ![p] =
                           Call("updateOrderStatus", "auth", session, id, status)]
    /\ UNCHANGED <<dbvars, ftp, server, env, mw, perm, sales>>

StartFtpCall(p) ==
    /\ CanStart(p)
    /\ \E folder \in Folders :
          \/ \E name \in FileNames :
                inv' = [inv EXCEPT ![p] =
                           Call("uploadFileToFTP", "config", NoUser, folder, name)]
          \/ \E name \in DeleteNames :
                inv' = [inv EXCEPT ![p] =
                           Call("deleteFileFromFTP", "config", NoUser, folder, name)]
    /\ UNCHANGED <<dbvars, ftp, server, env, mw, perm, sales>>

\* The one call of uploadMultipleFilesToFTP of a behaviour.
StartUploadMultiple(p) ==
    /\ \A q \in Procs : inv[q].pc = "idle"
    /\ CanStart(p)
    /\ \E folder \in Folders, files \in BatchInputs :
          /\ inv' = [inv EXCEPT ![p] =
                        Call("uploadMultipleFilesToFTP", "loop", NoUser, folder, files)]
          /\ ftp' = [ftp EXCEPT ![p] =
                        [NoFtp EXCEPT !.batch = [active |-> TRUE, files |-> files,
                                                 folder |-> folder, k |-> 1,
                                                 results |-> <<>>, open |-> 0]]]
    /\ UNCHANGED <<dbvars, server, env, mw, perm, sales>>

(***************************************************************************)
(* Sales reports                                                           *)
(*                                                                         *)
(* getSalesStats reads columns of the orders table that no admin action    *)
(* writes (total_amount, payment_status, created_at) next to status, so    *)
(* the rows it reads are kept in sales.table. Time is counted in whole     *)
(* days of a calendar of 365-day years; months are numbered from 0 as      *)
(* Date.getMonth numbers them.                                             *)
(***************************************************************************)
MaxOrders == 2

Periods == {"day", "week", "month", "all"}

DaysIn == <<31, 28, 31, 30, 31, 30, 31, 31, 30, 31, 30, 31>>

RECURSIVE DaysBefore(_)
DaysBefore(m) == IF m = 0 THEN 0 ELSE DaysBefore(m - 1) + DaysIn[m]

\* The day a Date of year y, month m and day-of-month d stands for. As in
\* Date, a d outside the month runs into the neighbouring months, and a
\* month of -1 is December of the year before.
DayNumber(y, m, d) ==
    IF m < 0 THEN (y - 1) * 365 + DaysBefore(m + 12) + d
    ELSE y * 365 + DaysBefore(m) + d

\* new Date(): the days on which getSalesStats is called.
Nows == {[y |-> 1, m |-> 2, d |-> 31], [y |-> 1, m |-> 0, d |-> 10]}

NoDate == [y |-> 0, m |-> 0, d |-> 0]

\* The startDate of the switch over period.
startDate(period, now) ==
    CASE period = "day" -> DayNumber(now.y, now.m, now.d - 1)
      [] period = "week" -> DayNumber(now.y, now.m, now.d - 7)
      [] period = "month" -> DayNumber(now.y, now.m - 1, now.d)
      [] OTHER -> 0

\* The string dateFilter: empty, or "created_at >= " and the start date.
NoFilter == [empty |-> TRUE, column |-> "none", from |-> 0]

dateFilter(period, now) ==
    IF period # "all"
    THEN [empty |-> FALSE, column |-> "created_at", from |-> startDate(period, now)]
    ELSE NoFilter

Amounts == {10, 25}

PaymentStatus == {"pending", "completed"}

CreatedAts == {DayNumber(0, 11, 1), DayNumber(1, 2, 2), DayNumber(1, 2, 24),
               DayNumber(1, 2, 30), DayNumber(1, 2, 31)}

OrderRows == [total_amount : Amounts, status : OrderStatus,
              payment_status : PaymentStatus, created_at : CreatedAts]

OrderTables == UNION {[1..n -> OrderRows] : n \in 0..MaxOrders}

\* from("orders").select(...).eq("payment_status", "completed"): the one
\* condition the query carries.
SelectPaidOrders(table) ==
    SelectSeq(table, LAMBDA o : o.payment_status = "completed")

\* orders.reduce((sum, order) => sum + order.total_amount, 0)
RECURSIVE SumAmounts(_)
SumAmounts(rows) ==
    IF rows = <<>> THEN 0
    ELSE SumAmounts(SubSeq(rows, 1, Len(rows) - 1)) + rows[Len(rows)].total_amount

QueryOutcomes == {"ok", "error"}

NoStats == [success |-> FALSE, totalRevenue |-> 0, totalOrders |-> 0,
            completedOrders |-> 0, orders |-> <<>>]

\* What getSalesStats returns, given the outcome of its query.
SalesStats(table, res) ==
    IF res = "error" THEN NoStats
    ELSE LET rows == SelectPaidOrders(table) IN
         [success |-> TRUE,
          totalRevenue |-> SumAmounts(rows),
          totalOrders |-> Len(rows),
          completedOrders |-> Len(SelectSeq(rows, LAMBDA o : o.status = "delivered")),
          orders |-> rows]

NoSales == [table |-> <<>>, period |-> "none", now |-> NoDate,
            dateFilter |-> NoFilter, result |-> NoStats]

GetSalesStats ==
    /\ \E period \in Periods, now \in Nows, res \in QueryOutcomes :
          sales' = [sales EXCEPT !.period = period,
                                 !.now = now,
                                 !.dateFilter = dateFilter(period, now),
                                 !.result = SalesStats(sales.table, res)]
    /\ UNCHANGED <<dbvars, inv, ftp, server, env, mw, perm>>

(***************************************************************************)
(* Initial states and specifications                                       *)
(***************************************************************************)
InitProfile(role) == [exists |-> TRUE, role |-> role, is_active |-> TRUE]

\* The database: a chief admin u1 and a second user of any role, staff
\* rows for the staff, one product, one order, an empty audit log.
InitDb(roles) ==
    /\ profiles = [u \in Users |-> InitProfile(roles[u])]
    /\ admin_staff = [u \in Users |-> IF roles[u] = "customer" THEN 0 ELSE 1]
    /\ products = [i \in Pids |->
                     IF i = "p1" THEN [exists |-> TRUE, is_active |-> TRUE, data |-> "d0"]
                     ELSE NoProduct]
    /\ orders = [i \in Oids |-> "pending"]
    /\ logs = <<>>
    /\ writes = {}

InitQueries ==
    /\ inv = [p \in Procs |-> Idle]
    /\ ftp = [p \in Procs |-> NoFtp]
    /\ mw = NoRequest
    /\ perm = NoPerm

InitCalls ==
    /\ InitQueries
    /\ sales = NoSales

ProductsDir == <<<<"products">>>>

ProductsServer == [dirs |-> {<<>>, ProductsDir},
                   files |-> {RemotePath(<<"products">>, ExistingFile)}]

\* The FTP side: the environment is complete or not, the server holds the
\* root directory and perhaps /products with one file.
InitFtp ==
    /\ env \in {[ok |-> FALSE, baseUrl |-> <<>>]}
                 \cup {[ok |-> TRUE, baseUrl |-> b] : b \in BaseUrls}
    /\ server \in {[dirs |-> {<<>>}, files |-> {}], ProductsServer}

FixedFtp ==
    /\ env = [ok |-> FALSE, baseUrl |-> <<>>]
    /\ server = [dirs |-> {<<>>}, files |-> {}]

Init ==
    /\ \E r \in UserRole : InitDb([u \in Users |-> IF u = "u1" THEN "chief_admin" ELSE r])
    /\ InitCalls
    /\ InitFtp

InitDbOnly ==
    /\ \E r \in {"customer", "agent"} :
          InitDb([u \in Users |-> IF u = "u1" THEN "chief_admin" ELSE r])
    /\ InitCalls
    /\ FixedFtp

InitRoles ==
    /\ \E r \in UserRole : InitDb([u \in Users |-> IF u = "u1" THEN "chief_admin" ELSE r])
    /\ InitCalls
    /\ FixedFtp

InitActions ==
    /\ InitDb([u \in Users |-> IF u = "u1" THEN "chief_admin" ELSE "customer"])
    /\ InitCalls
    /\ env = [ok |-> TRUE, baseUrl |-> <<"https://cdn.example.com", "/">>]
    /\ server = ProductsServer

InitFtpOnly ==
    /\ InitDb([u \in Users |-> IF u = "u1" THEN "chief_admin" ELSE "customer"])
    /\ InitCalls
    /\ InitFtp

\* The orders table holds up to MaxOrders rows, paid or not, recent or old.
InitSales ==
    /\ InitDb([u \in Users |-> IF u = "u1" THEN "chief_admin" ELSE "customer"])
    /\ InitQueries
    /\ FixedFtp
    /\ \E t \in OrderTables : sales = [NoSales EXCEPT !.table = t]

UserActions(p) ==
    \/ StartUserAction(p)
    \/ PromoteUser(p)
    \/ DemoteUser(p)
    \/ DeleteUser(p)
    \/ ToggleUserStatus(p)

ProductActions(p) ==
    \/ StartProductAction(p)
    \/ CreateProduct(p)
    \/ UpdateProduct(p)
    \/ DeleteProduct(p)
    \/ ToggleProductStatus(p)
    \/ UpdateOrderStatus(p)

FtpActions(p) ==
    \/ StartFtpCall(p)
    \/ UploadFileToFTP(p)
    \/ DeleteFileFromFTP(p)

NextUsers == \E p \in Procs : UserActions(p)

NextUsersInTurn ==
    \E p \in Procs :
        \/ StartUserActionAlone(p)
        \/ PromoteUser(p)
        \/ DemoteUser(p)
        \/ DeleteUser(p)
        \/ ToggleUserStatus(p)

NextAdmin == \E p \in Procs : UserActions(p) \/ ProductActions(p)

NextFtp == \E p \in Procs : FtpActions(p)

NextBatch ==
    \E p \in Procs :
        \/ StartUploadMultiple(p)
        \/ UploadMultipleFilesToFTP(p)
        \/ UploadFileToFTP(p)

NextActions == \E p \in Procs : UserActions(p) \/ ProductActions(p) \/ FtpActions(p)

NextMw == MiddlewareRequest

NextPerm == CheckPermission \/ GetAdminPermissions

NextSales == GetSalesStats

Next == NextActions \/ NextBatch \/ NextMw \/ NextPerm \/ NextSales

\* Everything together.
Spec == Init /\ [][Next]_vars

\* The user management actions, interleaved.
SpecUsers == InitDbOnly /\ [][NextUsers]_vars

\* The user management actions, each call running to completion before
\* the next is made.
SpecUsersInTurn == InitDbOnly /\ [][NextUsersInTurn]_vars

\* The nine admin actions, interleaved.
SpecAdmin == InitDbOnly /\ [][NextAdmin]_vars

\* The FTP upload service.
SpecFtp == InitFtpOnly /\ [][NextFtp]_vars

\* One call of uploadMultipleFilesToFTP.
SpecBatch == InitFtpOnly /\ [][NextBatch]_vars

\* The server actions and the FTP calls, from one initial state.
SpecActions == InitActions /\ [][NextActions]_vars

\* The middleware, for a chief admin and a second user of any role.
SpecMw == InitRoles /\ [][NextMw]_vars

\* checkPermission and getAdminPermissions, for a chief admin and a second
\* user of any role.
SpecPerm == InitRoles /\ [][NextPerm]_vars

\* getSalesStats, over an orders table of up to MaxOrders rows.
SpecSales == InitSales /\ [][NextSales]_vars

(***************************************************************************)
(* Properties                                                              *)
(***************************************************************************)
Done(p) == inv[p].pc = "done"

FtpOps == {"uploadFileToFTP", "deleteFileFromFTP"}

\* C1: no change to a products, orders, profiles or admin_staff row was
\* ever made by a caller whose profile role was customer when it was made.
C1_NoWriteByCustomer == \A w \in writes : w.role # "customer"

\* The rank the specification gives each role.
C2_Rank == [customer |-> 0, agent |-> 1, admin |-> 2, chief_admin |-> 3]

\* C2: checkPermission gives a boolean, never an exception, and gives true
\* exactly when getUser gave a user, the profile query gave a row, and the
\* rank of the row's role is at least the rank of the required role.
C2_CheckPermissionIsRankTest ==
    perm.required # "none" =>
        /\ perm.result \in BOOLEAN
        /\ perm.result = (/\ perm.user \in Users
                          /\ perm.role \in UserRole
                          /\ C2_Rank[perm.role] >= C2_Rank[perm.required])

\* An agent passes the check for the agent rank.
C2_Witness ==
    /\ perm.required = "agent"
    /\ perm.role = "agent"
    /\ perm.result = TRUE

C3_LogPaths(pathname) ==
    \/ StartsWith(pathname, <<"/", "admin", "/", "audit-log">>)
    \/ StartsWith(pathname, <<"/", "admin", "/", "sales-log">>)

\* C3: a request of an authenticated caller to a path that starts with
\* /admin/audit-log or /admin/sales-log is redirected to /admin/dashboard
\* when the caller's role is agent, and let through when it is admin or
\* chief_admin.
C3_AgentKeptFromLogs ==
    (mw.outcome.kind # "none" /\ mw.user # NoUser /\ C3_LogPaths(mw.pathname)) =>
        /\ mw.role = "agent" =>
              mw.outcome.kind = "redirect" /\ mw.outcome.to = AdminDashboard
        /\ mw.role \in {"admin", "chief_admin"} => mw.outcome.kind = "next"

C3_Witness ==
    /\ mw.role = "agent"
    /\ mw.pathname = <<"/", "admin", "/", "sales-log", "x">>
    /\ mw.outcome.kind = "redirect"
    /\ mw.outcome.to = AdminDashboard

C4_CustomerPaths(pathname) ==
    \/ StartsWith(pathname, <<"/", "shop", "/", "history">>)
    \/ StartsWith(pathname, <<"/", "shop", "/", "wishlist">>)
    \/ StartsWith(pathname, <<"/", "shop", "/", "checkout">>)

C4_UnderAdmin(pathname) == StartsWith(pathname, <<"/", "admin">>)

\* C4: an unauthenticated request is let through only when its path is
\* /admin/login or is neither under /admin nor a protected customer path;
\* to any other /admin path it is redirected to /admin/login, and to a
\* protected customer path to /shop/auth with redirect = the path name.
C4_UnauthenticatedGuard ==
    (mw.outcome.kind # "none" /\ mw.user = NoUser) =>
        /\ mw.outcome.kind = "next" =>
              \/ mw.pathname = <<"/", "admin", "/", "login">>
              \/ ~C4_UnderAdmin(mw.pathname) /\ ~C4_CustomerPaths(mw.pathname)
        /\ (C4_UnderAdmin(mw.pathname) /\ mw.pathname # <<"/", "admin", "/", "login">>) =>
              /\ mw.outcome.kind = "redirect"
              /\ mw.outcome.to = <<"/", "admin", "/", "login">>
        /\ C4_CustomerPaths(mw.pathname) =>
              /\ mw.outcome.kind = "redirect"
              /\ mw.outcome.to = <<"/", "shop", "/", "auth">>
              /\ mw.outcome.query = <<"redirect", mw.pathname>>

C4_Witness ==
    /\ mw.user = NoUser
    /\ mw.pathname = <<"/", "shop", "/", "checkout", "x">>
    /\ mw.outcome.kind = "redirect"
    /\ mw.outcome.to = ShopAuth
    /\ mw.outcome.query = <<"redirect", mw.pathname>>

\* C5: admin_staff never holds more than one row for a user, and a
\* promoteUser call whose admin_staff insert hit the duplicate-key error
\* 23505 returns success = true.
C5_OneStaffRowPerUser ==
    /\ \A u \in Users : admin_staff[u] <= 1
    /\ \A p \in Procs :
          (inv[p].op = "promoteUser" /\ Done(p) /\ "staffInsert23505" \in inv[p].failed)
              => inv[p].result.success

\* Two promotions of the same customer, both returned with success, the
\* later insert having hit 23505.
C5_Witness ==
    \E p, q \in Procs :
        /\ p # q
        /\ inv[p].op = "promoteUser" /\ inv[q].op = "promoteUser"
        /\ inv[p].target = "u2" /\ inv[q].target = "u2"
        /\ Done(p) /\ Done(q)
        /\ inv[p].result.success /\ inv[q].result.success
        /\ "staffInsert23505" \in inv[q].failed
        /\ "staffInsert23505" \notin inv[p].failed
        /\ admin_staff["u2"] = 1

\* C6: at the step at which a demoteUser call returns success = true, the
\* target's profile role is customer and admin_staff has no row for it.
C6_DemotedOnSuccess ==
    [][\A p \in Procs :
          (/\ inv[p].op = "demoteUser"
           /\ ~Done(p)
           /\ inv'[p].pc = "done"
           /\ inv'[p].result.success)
              => /\ profiles'[inv[p].target].exists
                 /\ profiles'[inv[p].target].role = "customer"
                 /\ admin_staff'[inv[p].target] = 0]_vars

\* The external calls whose failure an invocation reports.
C7_Reported == {"auth", "callerProfile", "write", "staffInsert", "connect", "put",
                "delete"}

\* C7 as stated: an invocation that has returned after any of its external
\* calls failed returned success = false with an error string, and every
\* invocation returns rather than throws.
C7_AnyFailureIsReported ==
    \A p \in Procs :
        Done(p) =>
            /\ inv[p].result.kind = "returned"
            /\ inv[p].failed # {} =>
                  ~inv[p].result.success /\ inv[p].result.error # "none"

\* C7 as amended: every invocation returns rather than throws, and one in
\* which the authentication, the caller-role lookup, the action's own data
\* write (an admin_staff insert error other than 23505 included), or the
\* FTP connect, put or delete failed returned success = false with an
\* error string.
C7_DecisiveFailureIsReported ==
    \A p \in Procs :
        Done(p) =>
            /\ inv[p].result.kind = "returned"
            /\ inv[p].failed \cap C7_Reported # {} =>
                  ~inv[p].result.success /\ inv[p].result.error # "none"

\* A promotion whose admin_staff insert failed with another error than
\* 23505, and an upload whose put failed, both returned as failures.
C7_Witness ==
    \E p, q \in Procs :
        /\ Done(p) /\ inv[p].op = "promoteUser" /\ "staffInsert" \in inv[p].failed
        /\ ~inv[p].result.success /\ inv[p].result.error # "none"
        /\ Done(q) /\ inv[q].op = "uploadFileToFTP" /\ "put" \in inv[q].failed
        /\ ~inv[q].result.success /\ inv[q].result.error # "none"

\* C8: a call of uploadFileToFTP or deleteFileFromFTP that has returned
\* has ended every connection it started.
C8_ConnectionEndedOnReturn ==
    \A p \in Procs :
        (inv[p].op \in FtpOps /\ Done(p) /\ ftp[p].started) => ftp[p].ended

C9_Count(tr, e) == Cardinality({i \in DOMAIN tr : tr[i] = e})

C9_Before(tr, i, es) == \E j \in 1..(i - 1) : tr[j] \in es

\* C9: in the FTP commands of one uploadFileToFTP call, connect comes first
\* and at most once, cwd and mkdir come only between the connection being
\* ready and the end of the directory step, put comes at most once and only
\* after both, and nothing comes after end.
C9_UploadOrder ==
    \A p \in Procs :
        inv[p].op = "uploadFileToFTP" =>
            LET tr == ftp[p].trace IN
            /\ C9_Count(tr, "connect") <= 1
            /\ C9_Count(tr, "put") <= 1
            /\ C9_Count(tr, "end") <= 1
            /\ \A i \in DOMAIN tr :
                  /\ tr[i] = "connect" => i = 1
                  /\ tr[i] \in {"cwd", "mkdir"} =>
                        /\ C9_Before(tr, i, {"ready"})
                        /\ ~C9_Before(tr, i, {"ensured", "put", "end"})
                  /\ tr[i] = "put" =>
                        C9_Before(tr, i, {"ready"}) /\ C9_Before(tr, i, {"ensured"})
                  /\ tr[i] = "end" => i = Len(tr)

\* An upload that had to make its directory and succeeded.
C9_Witness ==
    \E p \in Procs :
        /\ inv[p].op = "uploadFileToFTP" /\ Done(p) /\ inv[p].result.success
        /\ ftp[p].trace = <<"connect", "ready", "cwd", "cwd", "mkdir", "ensured",
                            "put", "end">>

\* The text after the last "." of a name (the name itself without a ".").
C10_AfterLastDot(name) ==
    LET dots == {i \in DOMAIN name : name[i] = "."} IN
    IF dots = {} THEN name
    ELSE SubSeq(name, (CHOOSE i \in dots : \A j \in dots : j <= i) + 1, Len(name))

C10_BaseUrl ==
    IF env.baseUrl # <<>> /\ env.baseUrl[Len(env.baseUrl)] = "/"
    THEN SubSeq(env.baseUrl, 1, Len(env.baseUrl) - 1)
    ELSE env.baseUrl

\* The result of a successful upload p names, and the server holds, the
\* file timestamp-random.ext in the folder.
C10_UrlAndPath(p, ext) ==
    \E ts \in Timestamps, rnd \in Randoms :
        LET fn == <<ts, "-", rnd, ".">> \o ext IN
        /\ ftp[p].filename = fn
        /\ ftp[p].url = C10_BaseUrl \o <<"/">> \o inv[p].target \o <<"/">> \o fn
        /\ ftp[p].putPath = <<"/">> \o inv[p].target \o <<"/">> \o fn
        /\ ftp[p].putPath \in server.files

\* C10 as stated: a successful upload returns baseUrl/folder/filename and
\* has put the file at /folder/filename, the filename being
\* timestamp-random.ext with ext the text after the last "." of the name.
C10_UrlNamesWrittenFile ==
    \A p \in Procs :
        (inv[p].op = "uploadFileToFTP" /\ Done(p) /\ inv[p].result.success) =>
            C10_UrlAndPath(p, C10_AfterLastDot(inv[p].arg))

\* C10 as amended: the same, with ext "file" when the text after the last
\* "." is empty.
C10_UrlNamesWrittenFileOrDefaultExt ==
    \A p \in Procs :
        (inv[p].op = "uploadFileToFTP" /\ Done(p) /\ inv[p].result.success) =>
            C10_UrlAndPath(p, IF C10_AfterLastDot(inv[p].arg) = <<>> THEN <<"file">>
                              ELSE C10_AfterLastDot(inv[p].arg))

\* A successful upload of a file whose name ends in ".", under a base URL
\* that ends in "/", into a nested folder.
C10_Witness ==
    \E p \in Procs :
        /\ inv[p].op = "uploadFileToFTP" /\ Done(p) /\ inv[p].result.success
        /\ inv[p].arg = <<"photo", ".">>
        /\ inv[p].target = <<"products", "/", "images">>
        /\ env.baseUrl = <<"https://cdn.example.com", "/">>

\* C11: the audit log is append-only: every step leaves the rows the log
\* already holds as they are and in place, so the log after the step is the
\* log before it, possibly with rows added at the end.
C11_LogAppendOnly == [][IsPrefix(logs, logs')]_vars

\* The segments of a folder, and the path "/s1/.../sk" of its first k.
C12_Segs(folder) == SelectSeq(folder, LAMBDA x : x # "/")

RECURSIVE C12_Prefix(_, _)
C12_Prefix(segs, k) ==
    IF k = 0 THEN <<>> ELSE C12_Prefix(segs, k - 1) \o <<"/", segs[k]>>

\* C12: the cwd and mkdir commands of one upload start with cwd(folder);
\* when that succeeds nothing follows; otherwise the prefixes /s1, /s1/s2,
\* ... are visited in order of increasing length starting with /s1, a mkdir
\* is issued for a prefix only right after the cwd on that prefix failed,
\* and a mkdir for a prefix longer than /s1 comes only after a cwd or a
\* mkdir on its parent succeeded.
C12_SequentialProbing ==
    \A p \in Procs :
        inv[p].op = "uploadFileToFTP" =>
            LET pr == ftp[p].probes
                segs == C12_Segs(inv[p].target)
            IN
            /\ Len(pr) >= 1 =>
                  /\ pr[1].cmd = "cwd" /\ pr[1].path = inv[p].target
                  /\ pr[1].ok => Len(pr) = 1
            /\ Len(pr) >= 2 => pr[2] = [cmd |-> "cwd", path |-> C12_Prefix(segs, 1),
                                        ok |-> pr[2].ok]
            /\ \A i \in 2..Len(pr) :
                  \E k \in 1..Len(segs) :
                     /\ pr[i].path = C12_Prefix(segs, k)
                     /\ pr[i].cmd = "mkdir" =>
                           /\ pr[i - 1] = [cmd |-> "cwd", path |-> pr[i].path,
                                           ok |-> FALSE]
                           /\ k > 1 => \E j \in 2..(i - 1) :
                                          /\ pr[j].path = C12_Prefix(segs, k - 1)
                                          /\ pr[j].ok
                     /\ (pr[i].cmd = "cwd" /\ i > 2) =>
                           /\ k > 1
                           /\ pr[i - 1].path = C12_Prefix(segs, k - 1)
                           /\ pr[i - 1].ok

\* An upload into products/images on a server without either directory:
\* both are looked for and made, in order.
C12_Witness ==
    \E p \in Procs :
        /\ inv[p].op = "uploadFileToFTP"
        /\ ftp[p].probes =
              << [cmd |-> "cwd", path |-> <<"products", "/", "images">>, ok |-> FALSE],
                 [cmd |-> "cwd", path |-> <<"/", "products">>, ok |-> FALSE],
                 [cmd |-> "mkdir", path |-> <<"/", "products">>, ok |-> TRUE],
                 [cmd |-> "cwd", path |-> <<"/", "products", "/", "images">>,
                  ok |-> FALSE],
                 [cmd |-> "mkdir", path |-> <<"/", "products", "/", "images">>,
                  ok |-> TRUE] >>

C13_UserOps == {"promoteUser", "demoteUser", "deleteUser", "toggleUserStatus"}

\* C13: a step of a user management invocation changes profiles,
\* admin_staff or the audit log only when the invocation has a user and the
\* role read for that user was chief_admin, and an invocation without a
\* user or with another role read returns success = false.
C13_RefusedCallerChangesNothing ==
    [][\A p \in Procs :
          (inv[p].op \in C13_UserOps /\ inv'[p] # inv[p]) =>
              /\ <<profiles, admin_staff, logs>>' # <<profiles, admin_staff, logs>> =>
                    inv[p].user \in Users /\ inv[p].callerRole = "chief_admin"
              /\ (/\ inv'[p].pc = "done"
                  /\ inv'[p].user = NoUser \/ inv'[p].callerRole # "chief_admin")
                    => ~inv'[p].result.success]_vars

\* An agent's deleteUser of the chief admin was refused, an unauthenticated
\* promoteUser too, and the tables are as they were.
C13_Witness ==
    \E p, q \in Procs :
        /\ inv[p].op = "deleteUser" /\ inv[p].pc = "done"
        /\ inv[p].user = "u2" /\ inv[p].callerRole = "agent" /\ inv[p].target = "u1"
        /\ ~inv[p].result.success
        /\ inv[q].op = "promoteUser" /\ inv[q].pc = "done"
        /\ inv[q].session = NoUser /\ ~inv[q].result.success
        /\ profiles["u1"] = [exists |-> TRUE, role |-> "chief_admin", is_active |-> TRUE]
        /\ profiles["u2"] = [exists |-> TRUE, role |-> "agent", is_active |-> TRUE]
        /\ admin_staff = [u \in Users |-> 1]
        /\ logs = <<>>

C14_ChiefPaths(pathname) ==
    \/ StartsWith(pathname, <<"/", "admin", "/", "users">>)
    \/ StartsWith(pathname, <<"/", "admin", "/", "roles">>)
    \/ StartsWith(pathname, <<"/", "admin", "/", "agents">>)

\* C14: of the authenticated callers, a path that starts with /admin/users,
\* /admin/roles or /admin/agents lets chief_admin through and no other
\* role, agent and admin being redirected to /admin/dashboard; and on any
\* path that starts with /admin and is not /admin/login a caller without a
\* profile role or with a role other than agent, admin and chief_admin is
\* redirected to /.
C14_ChiefAdminOnly ==
    (mw.outcome.kind # "none" /\ mw.user # NoUser) =>
        /\ C14_ChiefPaths(mw.pathname) =>
              /\ (mw.outcome.kind = "next") = (mw.role = "chief_admin")
              /\ mw.role \in {"agent", "admin"} =>
                    mw.outcome.kind = "redirect"
                    /\ mw.outcome.to = <<"/", "admin", "/", "dashboard">>
        /\ (/\ StartsWith(mw.pathname, <<"/", "admin">>)
            /\ mw.pathname # <<"/", "admin", "/", "login">>
            /\ mw.role \notin {"agent", "admin", "chief_admin"}) =>
              mw.outcome.kind = "redirect" /\ mw.outcome.to = <<"/">>

\* An admin asking for a page below /admin/users is sent to the dashboard.
C14_Witness ==
    /\ mw.user = "u2"
    /\ mw.role = "admin"
    /\ mw.pathname = <<"/", "admin", "/", "users", "/", "x">>
    /\ mw.outcome.kind = "redirect"
    /\ mw.outcome.to = AdminDashboard

C15_AdminRequest(pathname) == StartsWith(pathname, <<"/", "admin">>)

\* C15 as stated: the insert of a dashboard_access row is attempted for
\* exactly the requests to a path that starts with /admin that are let
\* through.
C15_InsertIffAdminRequestLetThrough ==
    mw.outcome.kind # "none" =>
        (mw.logged # "none") =
            (C15_AdminRequest(mw.pathname) /\ mw.outcome.kind = "next")

\* C15 as amended: a request attempts the insert exactly when its path
\* starts with /admin, is not /admin/login, and the request is let through;
\* a redirected request attempts none; the log grows by exactly the one row
\* (admin_id = the caller, changes.path = the path name) when the insert
\* succeeds and stays as it is otherwise, the request being let through all
\* the same.
C15_InsertIffAdminAreaLetThrough ==
    [][/\ (mw'.logged # "none") =
             (/\ C15_AdminRequest(mw'.pathname)
              /\ mw'.pathname # <<"/", "admin", "/", "login">>
              /\ mw'.outcome.kind = "next")
       /\ mw'.outcome.kind = "redirect" => mw'.logged = "none"
       /\ logs' = IF mw'.logged = "ok"
                  THEN Append(logs, [admin_id |-> mw'.user,
                                     action |-> "dashboard_access",
                                     resource_type |-> "admin_dashboard",
                                     resource_id |-> "null",
                                     changes |-> <<<<"path", mw'.pathname>>>>])
                  ELSE logs]_<<mw, logs>>

\* An agent's request for /admin/catalog went through although the insert
\* threw, and the log has no row.
C15_Witness ==
    /\ mw.outcome.kind = "next"
    /\ mw.logged = "throw"
    /\ mw.role = "agent"
    /\ mw.pathname = <<"/", "admin", "/", "catalog">>
    /\ logs = <<>>

\* C16: when every call made so far has run to completion, a user has an
\* admin_staff row if and only if the user's profile exists with a role
\* other than customer.
C16_StaffRowIffStaffRole ==
    (\A p \in Procs : inv[p].pc \in {"idle", "done"}) =>
        \A u \in Users :
            (admin_staff[u] > 0) = (profiles[u].exists /\ profiles[u].role # "customer")

C17_ToggleOps == {"toggleUserStatus", "toggleProductStatus"}

\* The successful toggles of a row, and the actions logged for the row.
C17_Toggles(op, t) ==
    {p \in Procs : inv[p].op = op /\ inv[p].target = t /\ inv[p].pc = "done"
                   /\ inv[p].result.success}

\* C17, for toggles none of whose database calls failed: when the calls
\* made are n successful toggles of rows that started active, each row's
\* is_active is the initial value negated once per toggle of the row, and
\* every toggle replaced the value it had read, which is the value its
\* logged action is named after.
C17_NoToggleLost ==
    (\A p \in Procs :
        \/ inv[p].pc = "idle"
        \/ /\ inv[p].op \in C17_ToggleOps /\ inv[p].pc = "done"
           /\ inv[p].result.success /\ inv[p].failed = {}) =>
        /\ \A u \in Users :
              profiles[u].is_active =
                  (Cardinality(C17_Toggles("toggleUserStatus", u)) % 2 = 0)
        /\ products["p1"].is_active =
              (Cardinality(C17_Toggles("toggleProductStatus", "p1")) % 2 = 0)
        /\ \A p \in Procs : inv[p].pc = "done" => inv[p].arg = inv[p].local

\* Whether the middleware lets an authenticated caller of a role through
\* to a path.
C18_LetThrough(pathname, user, role) == middleware(pathname, user, role).kind = "next"

\* C18: the permissions getAdminPermissions gives a role agree with the
\* middleware: each of canViewAuditLogs, canViewSalesLogs, canManageUsers
\* and canManageAgents is true exactly when the middleware lets the role
\* through to /admin/audit-log, /admin/sales-log, /admin/users and
\* /admin/agents.
C18_PermissionsAgreeWithMiddleware ==
    ~perm.permissions.null =>
        LET ps == perm.permissions
            through(pathname) == C18_LetThrough(pathname, perm.user, ps.role)
        IN
        /\ ps.canViewAuditLogs = through(<<"/", "admin", "/", "audit-log">>)
        /\ ps.canViewSalesLogs = through(<<"/", "admin", "/", "sales-log">>)
        /\ ps.canManageUsers = through(<<"/", "admin", "/", "users">>)
        /\ ps.canManageAgents = through(<<"/", "admin", "/", "agents">>)

C19_Ops == {"promoteUser", "demoteUser", "deleteUser", "toggleUserStatus",
            "createProduct", "updateProduct", "deleteProduct",
            "toggleProductStatus", "updateOrderStatus"}

C19_Succeeded == {p \in Procs : inv[p].op \in C19_Ops /\ inv[p].pc = "done"
                                /\ inv[p].result.success}

\* C19 as stated: the log holds a row with admin_id = the caller and
\* resource_id = the affected row for every action that returned
\* success = true, and as many rows as there are such actions.
C19_OneRowPerSuccess ==
    /\ \A p \in C19_Succeeded :
          \E i \in DOMAIN logs :
             logs[i].admin_id = inv[p].user /\ logs[i].resource_id = inv[p].target
    /\ Len(logs) = Cardinality(C19_Succeeded)

\* C19 as amended: a row is added to the log only by the step at which an
\* action returns success = true, which is the action's one insert into
\* the log: it adds exactly one row, with admin_id = the caller and
\* resource_id = the affected row, or, when the insert failed, none; a step
\* at which an action returns success = false adds none.
C19_OneInsertPerSuccess ==
    [][\A p \in Procs :
          (inv[p].op \in C19_Ops /\ inv'[p] # inv[p]) =>
              LET returns == inv'[p].pc = "done"
                  added == Len(logs') > Len(logs)
              IN
              /\ added => returns /\ inv'[p].result.success
              /\ (returns /\ inv'[p].result.success) =>
                    IF "log" \in inv'[p].failed
                    THEN logs' = logs
                    ELSE /\ Len(logs') = Len(logs) + 1
                         /\ SubSeq(logs', 1, Len(logs)) = logs
                         /\ logs'[Len(logs')].admin_id = inv[p].user
                         /\ logs'[Len(logs')].resource_id = inv[p].target
              /\ (returns /\ ~inv'[p].result.success) => logs' = logs]_vars

\* One action returned success with its row in the log, another failed at
\* its data write and added nothing.
C19_Witness ==
    \E p, q \in Procs :
        /\ inv[p].op = "createProduct" /\ inv[p].pc = "done" /\ inv[p].result.success
        /\ "log" \notin inv[p].failed
        /\ inv[q].op = "updateOrderStatus" /\ inv[q].pc = "done"
        /\ "write" \in inv[q].failed /\ ~inv[q].result.success
        /\ Len(logs) = 1
        /\ logs[1].admin_id = inv[p].user /\ logs[1].resource_id = inv[p].target
        /\ logs[1].action = "product_created"

\* The connections of a call of uploadMultipleFilesToFTP that are started
\* and not ended.
C20_Open(p) ==
    ftp[p].batch.open + (IF ftp[p].started /\ ~ftp[p].ended THEN 1 ELSE 0)

\* C20: a call of uploadMultipleFilesToFTP has at no time more than one
\* connection open, has at any time one result for each file before the
\* file of the loop, in the order of the files, and when it has returned
\* it has one result for every file, whether uploads failed or not.
C20_OneResultPerFileOneConnection ==
    \A p \in Procs :
        ftp[p].batch.active =>
            LET b == ftp[p].batch IN
            /\ C20_Open(p) <= 1
            /\ Len(b.results) = b.k - 1
            /\ \A i \in DOMAIN b.results : b.results[i].file = b.files[i]
            /\ (inv[p].op = "uploadMultipleFilesToFTP" /\ inv[p].pc = "done") =>
                  Len(b.results) = Len(b.files)


\* Whether an order was created at or after the start of the period of the
\* last call of getSalesStats; every order is, when the period is all.
C21_InPeriod(o) ==
    sales.period = "all" \/ o.created_at >= startDate(sales.period, sales.now)

\* The orders C21 counts: payment completed, created within the period.
C21_Counted ==
    SelectSeq(sales.table,
              LAMBDA o : o.payment_status = "completed" /\ C21_InPeriod(o))

\* C21: when getSalesStats(period) has returned success, totalRevenue is
\* the sum of total_amount, totalOrders the number, and completedOrders the
\* number with status delivered, of exactly the orders with payment_status
\* completed that were created at or after the start of the period (one
\* day, seven days or one month before now), and of all orders with
\* payment_status completed when the period is all.
C21_StatsOverPeriod ==
    (sales.period \in Periods /\ sales.result.success) =>
        /\ sales.result.totalRevenue = SumAmounts(C21_Counted)
        /\ sales.result.totalOrders = Len(C21_Counted)
        /\ sales.result.completedOrders =
              Len(SelectSeq(C21_Counted, LAMBDA o : o.status = "delivered"))

\* What holds of getSalesStats in place of C21: the date filter is computed
\* for every period but all, and the figures are those of all orders with
\* payment_status completed, whatever the period.
C21_PeriodHasNoEffect ==
    (sales.period \in Periods /\ sales.result.success) =>
        LET paid == SelectSeq(sales.table,
                              LAMBDA o : o.payment_status = "completed")
        IN
        /\ sales.dateFilter.empty = (sales.period = "all")
        /\ sales.result.totalRevenue = SumAmounts(paid)
        /\ sales.result.totalOrders = Len(paid)
        /\ sales.result.completedOrders =
              Len(SelectSeq(paid, LAMBDA o : o.status = "delivered"))

\* getSalesStats("day") returned the figures of a paid order that was
\* created long before the start of the day before now.
C21_OldOrderCounted ==
    /\ sales.period = "day"
    /\ sales.result.success
    /\ ~sales.dateFilter.empty
    /\ Len(sales.table) = 1
    /\ sales.table[1].payment_status = "completed"
    /\ sales.table[1].created_at < sales.dateFilter.from
    /\ sales.result.totalOrders = 1

=============================================================================
